---- MODULE Spec2Model ----
(***************************************************************************)
(* A model of pwndbg's stack range tracker (pwndbg/gdblib/stack.py) and of *)
(* the canary command (pwndbg/commands/canary.py).                         *)
(*                                                                         *)
(* Python's None is the empty sequence <<>>, a present value x is <<x>>.   *)
(* A Page is a record; the dictionary `stacks` is the sequence of its      *)
(* items in insertion order, which is the order Python iterates it in.     *)
(***************************************************************************)
EXTENDS Integers, Sequences, FiniteSets, TLC

\* ------------------------------------------------------------- bounds
\* Pages 0..NumPages-1 of the address space may be mapped; page NumPages never is.
NumPages == 3
\* The stack words, above those of the page below and of AT_RANDOM, whose
\* contents the canary command's inputs choose.
NumSlots == 3
\* find_addr_on_stack is run with at most MaxScanSlots words between the
\* stack pointer and the upper bound of its Page.
MaxScanSlots == 3

\* ---------------------------------------------------- program constants
PAGE_SIZE == 4096
PAGE_OFFSET_MASK == 4095
PT_GNU_STACK == 1685382481
DEFAULT_MAX_PAGES == 1024
PERM_RW == 6
PERM_RWX == 7
LOW_BYTE_MASK == 255
DEFAULT_NUM_CANARIES_TO_DISPLAY == 2

\* The threads an inferior may have: its leader, whose thread id is the
\* process id, and one more.
Tids == {1, 2}
PageNos == 0..(NumPages - 1)

None == <<>>
Some(x) == <<x>>

\* The stack-pointer values a thread is observed with: unavailable, zero, or
\* a value in the middle of a page.
SpValues ==
    {None, Some(0)} \cup {Some(p * PAGE_SIZE + PAGE_SIZE \div 2) : p \in PageNos}

\* The addresses find() is asked about: the first and the last byte of pages.
Addresses ==
    {p * PAGE_SIZE : p \in 0..NumPages} \cup {p * PAGE_SIZE - 1 : p \in 1..NumPages}

\* ELF program header tables (the p_type of each header; 1 is PT_LOAD, 2 PT_DYNAMIC).
PhdrTables ==
    {<<>>, <<1, 2>>, <<1, PT_GNU_STACK, 2>>, <<PT_GNU_STACK, 1>>}

\* The memory maps a probe may meet: every page mapped, or all but one.
MappedLayouts ==
    {PageNos} \cup {PageNos \ {h} : h \in PageNos}

VARIABLES
    threads,      \* gdb.selected_inferior().threads(): the live thread ids
    pid,          \* the inferior's process id (ptid = (pid, tid, 0))
    selected,     \* gdb.selected_thread(): None or Some(tid)
    linux,        \* pwndbg.gdblib.abi.linux
    phdrs,        \* the program headers of the executable
    stacks,       \* stack.stacks: sequence of [ptid, page] in insertion order
    nx,           \* stack.nx
    updateCache,  \* cache_until("stop") of update(): TRUE when a result is cached
    execCache,    \* cache_until("exit") of is_executable(): None or Some(result)
    currentCache, \* cache_until("stop") of current(): None or Some(cached Page)
    sinceStop,    \* history: what the first current() since the last stop
                  \* event returned, None when none has returned
    epoch,        \* history: "init", "cleared" (clear() ran and update() has not
                  \* run since) or "updated" (update()'s body ran since)
    last,         \* history: the last tracker operation, its argument and outcome
    out           \* history: the last canary or scan command, its inputs and output

vars ==
    <<threads, pid, selected, linux, phdrs, stacks, nx,
      updateCache, execCache, currentCache, sinceStop, epoch, last, out>>

\* ------------------------------------------------------------ helpers

\* x & ~m on non-negative Python integers, bit by bit.
RECURSIVE BitAndNot(_, _)
BitAndNot(x, m) ==
    IF x = 0 THEN 0
    ELSE 2 * BitAndNot(x \div 2, m \div 2) + (IF m % 2 = 1 THEN 0 ELSE x % 2)

Min(a, b) == IF a <= b THEN a ELSE b

\* pwndbg.lib.memory.page_align: address & ~(PAGE_SIZE - 1)
page_align(address) == BitAndNot(address, PAGE_SIZE - 1)

\* pwndbg.lib.memory.Page(start, size, flags, offset, objfile)
Page(start, size, flags, offset, objfile) ==
    [vaddr |-> start, memsz |-> size, flags |-> flags, offset |-> offset,
     objfile |-> objfile]

\* Page.__contains__: start <= addr < start + size
PageContains(page, addr) ==
    page.vaddr <= addr /\ addr < page.vaddr + page.memsz

\* dict.get(key, None) on the item sequence
RECURSIVE DictIndex(_, _, _)
DictIndex(d, key, i) ==
    IF i > Len(d) THEN 0
    ELSE IF d[i].ptid = key THEN i
    ELSE DictIndex(d, key, i + 1)

DictGet(d, key) ==
    LET i == DictIndex(d, key, 1) IN IF i = 0 THEN None ELSE Some(d[i].page)

\* d[key] = page: replaces the value in place, or appends a new item
DictSet(d, key, page) ==
    LET i == DictIndex(d, key, 1) IN
    IF i = 0 THEN Append(d, [ptid |-> key, page |-> page])
    ELSE [d EXCEPT ![i].page = page]

\* pwndbg.gdblib.memory.find_upper_boundary: probe forward page by page
RECURSIVE find_upper_boundary(_, _, _)
find_upper_boundary(addr, max_pages, mp) ==
    IF max_pages = 0 THEN addr
    ELSE IF (addr \div PAGE_SIZE) \in mp
         THEN find_upper_boundary(addr + PAGE_SIZE, max_pages - 1, mp)
         ELSE addr

\* The addresses find_upper_boundary probes for valid memory, in order.
RECURSIVE find_upper_boundary_probes(_, _, _)
find_upper_boundary_probes(addr, max_pages, mp) ==
    IF max_pages = 0 THEN <<>>
    ELSE <<addr>> \o (IF (addr \div PAGE_SIZE) \in mp
                      THEN find_upper_boundary_probes(addr + PAGE_SIZE, max_pages - 1, mp)
                      ELSE <<>>)

\* Mutant: the boundary is probed for whatever the ABI.
find_upper_stack_boundary_AlwaysProbes(stack_ptr, max_pages, isLinux, mp) ==
    find_upper_boundary(page_align(stack_ptr), max_pages, mp)

\* stack.find_upper_stack_boundary
find_upper_stack_boundary(stack_ptr, max_pages, isLinux, mp) ==
    LET aligned == page_align(stack_ptr) IN
    IF ~isLinux THEN aligned + PAGE_SIZE
    ELSE find_upper_boundary(aligned, max_pages, mp)

\* The probes a call of find_upper_stack_boundary makes: none when it returns
\* before find_upper_boundary.
find_upper_stack_boundary_probes(stack_ptr, max_pages, isLinux, mp) ==
    IF ~isLinux THEN <<>>
    ELSE find_upper_boundary_probes(page_align(stack_ptr), max_pages, mp)

\* The loop of is_executable over the program headers.
RECURSIVE ScanPhdrs(_, _)
ScanPhdrs(ph, nxv) ==
    IF ph = <<>> THEN nxv
    ELSE ScanPhdrs(Tail(ph), IF Head(ph) = PT_GNU_STACK THEN TRUE ELSE nxv)

\* ------------------------------------------------------- is_executable

\* The body of is_executable: nx = False, then the scan; returns not nx.
is_executable(ph) ==
    LET n == ScanPhdrs(ph, FALSE) IN [nx |-> n, ret |-> ~n]

\* Mutant: is_executable without its cache.
CachedIsExecutable_Uncached(st, e, elfFault) ==
    IF elfFault
    THEN [st |-> [st EXCEPT !.nx = FALSE, !.failed = TRUE], ret |-> FALSE]
    ELSE LET r == is_executable(e.phdrs) IN
         [st |-> [st EXCEPT !.nx = r.nx, !.execCache = Some(r.ret), !.scans = @ + 1],
          ret |-> r.ret]

\* is_executable behind cache_until("exit"): a cached result is returned
\* without running the body; a failing ELF read leaves nx reset and caches
\* nothing.
CachedIsExecutable(st, e, elfFault) ==
    IF st.execCache # None THEN [st |-> st, ret |-> st.execCache[1]]
    ELSE IF elfFault
         THEN [st |-> [st EXCEPT !.nx = FALSE, !.failed = TRUE], ret |-> FALSE]
         ELSE LET r == is_executable(e.phdrs) IN
              [st |-> [st EXCEPT !.nx = r.nx, !.execCache = Some(r.ret),
                                 !.scans = @ + 1],
               ret |-> r.ret]

\* --------------------------------------------------------------- update

Fault(t, kind) == Some([tid |-> t, kind |-> kind])

\* sp_low = sp & ~(0xFFF); sp_low -= 0x1000
SpLow(spv) == BitAndNot(spv, PAGE_OFFSET_MASK) - PAGE_SIZE

\* Mutant: the two permission values swapped.
Permission_Swapped(executable) == IF ~executable THEN PERM_RWX ELSE PERM_RW

\* 6 if not is_executable() else 7
Permission(executable) == IF ~executable THEN PERM_RW ELSE PERM_RWX

\* The branch of update() for a thread without a Page.
NewPage(st, e, t, spv, fault) ==
    IF fault = Fault(t, "probe") THEN [st EXCEPT !.failed = TRUE]
    ELSE
        LET start == SpLow(spv)
            stop == find_upper_stack_boundary(spv, DEFAULT_MAX_PAGES, e.linux, e.mapped)
            ex == CachedIsExecutable(st, e, fault = Fault(t, "elf"))
        IN  IF ex.st.failed THEN ex.st
            ELSE [ex.st EXCEPT !.stacks =
                    DictSet(@, <<e.pid, t>>,
                            Page(start, stop - start, Permission(ex.ret), 0,
                                 <<"[stack]">>))]

\* elif page.objfile is None: label the Page after the thread.
Relabel(page, p, t) ==
    IF page.objfile = None
    THEN [page EXCEPT !.objfile =
            IF p = t THEN <<"[stack]">> ELSE <<"[stack:", t, "]">>]
    ELSE page

\* Mutant: the Page's start follows the stack pointer both ways.
ExtendDown_FollowSp(page, sp_low) ==
    IF sp_low # page.vaddr
    THEN [page EXCEPT !.memsz = @ + (page.vaddr - sp_low), !.vaddr = sp_low]
    ELSE page

\* Mutant: the start moves down and the size stays.
ExtendDown_KeepsSize(page, sp_low) ==
    LET low == Min(page.vaddr, sp_low) IN
    IF low # page.vaddr THEN [page EXCEPT !.vaddr = low] ELSE page

\* low = min(page.vaddr, sp_low); extend the Page downward if it got lower.
ExtendDown(page, sp_low) ==
    LET low == Min(page.vaddr, sp_low) IN
    IF low # page.vaddr
    THEN [page EXCEPT !.memsz = @ + (page.vaddr - low), !.vaddr = low]
    ELSE page

\* Mutant: only an unavailable stack pointer is skipped, zero is an address.
UpdateThread_ZeroIsAnAddress(st, e, t, fault) ==
    LET s1 == [st EXCEPT !.selected = Some(t), !.visited = Append(@, t)]
        spv == e.sp[t]
    IN  IF fault = Fault(t, "regs") THEN [s1 EXCEPT !.failed = TRUE]
        ELSE IF spv = None THEN s1
        ELSE LET page == DictGet(s1.stacks, <<e.pid, t>>) IN
             IF page = None THEN NewPage(s1, e, t, spv[1], fault)
             ELSE [s1 EXCEPT !.stacks =
                     DictSet(@, <<e.pid, t>>,
                             ExtendDown(Relabel(page[1], e.pid, t), SpLow(spv[1])))]

\* One iteration of the loop of update(), for thread t.
UpdateThread(st, e, t, fault) ==
    LET s1 == [st EXCEPT !.selected = Some(t), !.visited = Append(@, t)]
        spv == e.sp[t]
    IN  IF fault = Fault(t, "regs") THEN [s1 EXCEPT !.failed = TRUE]
        ELSE IF spv = None \/ spv[1] = 0 THEN s1
        ELSE LET page == DictGet(s1.stacks, <<e.pid, t>>) IN
             IF page = None THEN NewPage(s1, e, t, spv[1], fault)
             ELSE [s1 EXCEPT !.stacks =
                     DictSet(@, <<e.pid, t>>,
                             ExtendDown(Relabel(page[1], e.pid, t), SpLow(spv[1])))]

\* The for loop: stops at the first iteration that raises.
RECURSIVE UpdateLoop(_, _, _, _)
UpdateLoop(st, e, order, fault) ==
    IF order = <<>> \/ st.failed THEN st
    ELSE UpdateLoop(UpdateThread(st, e, Head(order), fault), e, Tail(order), fault)

\* Mutant: the thread is switched back after the loop, not in a finally block.
Restore_AfterLoopOnly(curr_thread, st) ==
    IF curr_thread # None /\ ~st.failed THEN [st EXCEPT !.selected = curr_thread] ELSE st

\* finally: if curr_thread: curr_thread.switch()
Restore(curr_thread, st) ==
    IF curr_thread # None THEN [st EXCEPT !.selected = curr_thread] ELSE st

\* The body of update().
update(st, e, order, fault) ==
    Restore(st.selected, UpdateLoop(st, e, order, fault))

\* update() behind cache_until("stop"): the body runs unless a result is
\* cached; a call that raises caches nothing.
CachedUpdate(st, e, order, fault) ==
    IF st.updateCache THEN st
    ELSE LET r == update(st, e, order, fault) IN
         [r EXCEPT !.updateCache = ~r.failed, !.ran = TRUE]

\* ----------------------------------------------------------------- find

\* for stack in stacks.values(): if address in stack: return stack
RECURSIVE Lookup(_, _)
Lookup(d, address) ==
    IF d = <<>> THEN None
    ELSE IF PageContains(Head(d).page, address) THEN Some(Head(d).page)
    ELSE Lookup(Tail(d), address)

\* find(address): update() first when no ranges are known.
find(st, e, address, order, fault) ==
    LET s1 == IF st.stacks = <<>> THEN CachedUpdate(st, e, order, fault) ELSE st IN
    IF s1.failed THEN [st |-> s1, ret |-> None]
    ELSE [st |-> s1, ret |-> Lookup(s1.stacks, address)]

\* ---------------------------------------------------------------- clear

\* Mutant: the flag is reset and the ranges are kept.
clear_KeepsRanges(st) == [st EXCEPT !.nx = FALSE]

\* Mutant: the ranges are dropped and the flag is kept.
clear_KeepsFlag(st) == [st EXCEPT !.stacks = <<>>]

\* stacks.clear(); nx = False
clear(st) == [st EXCEPT !.stacks = <<>>, !.nx = FALSE]

\* -------------------------------------------------------------- current

\* The key of the Page find() returns: the first in the dictionary's order
\* that contains the address.
RECURSIVE LookupKey(_, _)
LookupKey(d, address) ==
    IF d = <<>> THEN None
    ELSE IF PageContains(Head(d).page, address) THEN Some(Head(d).ptid)
    ELSE LookupKey(Tail(d), address)

\* What a cache of current() holds: the Page object find() returned, or None.
\* The object is the one the dictionary holds under ptid for as long as
\* clear() has not dropped it (attached): update() extends it in place.
Cached(ret, key) ==
    Some([page |-> ret, ptid |-> IF key = None THEN <<>> ELSE key[1],
          attached |-> ret # None])

\* The cached object after the dictionary has become d.
Follow(c, d) ==
    IF c = None THEN c
    ELSE IF c[1].attached /\ DictGet(d, c[1].ptid) # None
         THEN Some([c[1] EXCEPT !.page = DictGet(d, c[1].ptid)])
         ELSE c

\* The cached object after stacks.clear(): it is no longer in the dictionary.
Detach(c) ==
    IF c = None THEN c ELSE Some([c[1] EXCEPT !.attached = FALSE])

\* find(sp) as current() calls it, sp being None when no register is
\* readable: the containment test of a Page raises on None.
find_sp(st, e, spv, order, fault) ==
    LET s1 == IF st.stacks = <<>> THEN CachedUpdate(st, e, order, fault) ELSE st IN
    IF s1.failed THEN [st |-> s1, ret |-> None, key |-> None]
    ELSE IF spv = None
         THEN [st |-> [s1 EXCEPT !.failed = s1.stacks # <<>>], ret |-> None, key |-> None]
         ELSE [st |-> s1, ret |-> Lookup(s1.stacks, spv[1]),
               key |-> LookupKey(s1.stacks, spv[1])]

\* Mutant: current() without its cache.
current_Uncached(st, c, e, spv, order, fault) ==
    LET r == find_sp(st, e, spv, order, fault) IN
    [st |-> r.st, ret |-> r.ret, cache |-> None]

\* current() behind cache_until("stop"): a cached result is returned as it
\* is; otherwise find(sp) runs and its result is cached unless it raised.
current(st, c, e, spv, order, fault) ==
    IF c # None THEN [st |-> st, ret |-> c[1].page, cache |-> c]
    ELSE LET r == find_sp(st, e, spv, order, fault) IN
         [st |-> r.st, ret |-> r.ret,
          cache |-> IF r.st.failed THEN None ELSE Cached(r.ret, r.key)]

\* --------------------------------------------------------------- canary
\* An integer of pointer width is the sequence of its bytes, the least
\* significant first; memory holds bytes in address order, which pack and
\* unpack relate to the integer by the architecture's byte order.

\* x & y and x ^ y on non-negative integers, bit by bit.
RECURSIVE BitAnd(_, _)
BitAnd(x, y) ==
    IF x = 0 \/ y = 0 THEN 0
    ELSE 2 * BitAnd(x \div 2, y \div 2) + (IF x % 2 = 1 /\ y % 2 = 1 THEN 1 ELSE 0)

RECURSIVE BitXor(_, _)
BitXor(x, y) ==
    IF x = 0 THEN y
    ELSE IF y = 0 THEN x
    ELSE 2 * BitXor(x \div 2, y \div 2) + (IF x % 2 # y % 2 THEN 1 ELSE 0)

WordAnd(a, b) == [i \in 1..Len(a) |-> BitAnd(a[i], b[i])]
WordXor(a, b) == [i \in 1..Len(a) |-> BitXor(a[i], b[i])]

\* A one-byte integer at pointer width.
WordOf(byte, ptrsize) == [i \in 1..ptrsize |-> IF i = 1 THEN byte ELSE 0]

\* pwndbg.gdblib.arch.ptrmask: all ones at pointer width
ptrmask(ptrsize) == [i \in 1..ptrsize |-> LOW_BYTE_MASK]

Reverse(w) == [i \in 1..Len(w) |-> w[Len(w) + 1 - i]]

\* pwndbg.gdblib.arch.pack / unpack
pack(w, endian) == IF endian = "little" THEN w ELSE Reverse(w)
unpack(bytes, endian) == IF endian = "little" THEN bytes ELSE Reverse(bytes)

\* The bytes at an address; memory the inputs say nothing about is zero.
MemRead(mem, addr, ptrsize) ==
    IF addr \in DOMAIN mem THEN mem[addr] ELSE [i \in 1..ptrsize |-> 0]

\* pwndbg.gdblib.memory.pvoid: the pointer-width integer at an address
pvoid(mem, addr, arch) == unpack(MemRead(mem, addr, arch.ptrsize), arch.endian)

\* Mutant: the value is cut to pointer width and its low byte is kept.
MaskCanary_KeepsLowByte(global_canary, ptrsize) ==
    WordAnd(global_canary, ptrmask(ptrsize))

\* global_canary &= pwndbg.gdblib.arch.ptrmask ^ 0xFF
MaskCanary(global_canary, ptrsize) ==
    WordAnd(global_canary, WordXor(ptrmask(ptrsize), WordOf(LOW_BYTE_MASK, ptrsize)))

\* Mutant: a missing AT_RANDOM is taken to be address zero.
canary_value_DefaultsToZero(auxv, mem, arch) ==
    LET at_random == IF auxv = None THEN Some(0) ELSE auxv IN
    [canary |-> Some(MaskCanary(pvoid(mem, at_random[1], arch), arch.ptrsize)),
     at_random |-> at_random, reads |-> <<at_random[1]>>]

\* canary_value(): (None, None) without AT_RANDOM, else the masked value read
\* there and the address. `reads` lists the addresses read.
canary_value(auxv, mem, arch) ==
    LET at_random == auxv IN
    IF at_random = None
    THEN [canary |-> None, at_random |-> None, reads |-> <<>>]
    ELSE [canary |-> Some(MaskCanary(pvoid(mem, at_random[1], arch), arch.ptrsize)),
          at_random |-> at_random, reads |-> <<at_random[1]>>]

\* The elements of a set of integers in ascending order.
RECURSIVE Ascending(_)
Ascending(S) ==
    IF S = {} THEN <<>>
    ELSE LET m == CHOOSE x \in S : \A y \in S : x <= y IN <<m>> \o Ascending(S \ {m})

\* pwndbg.search.search(pattern, start, end): the addresses in [start, end)
\* where the pattern's bytes stand, ascending.
search(pattern, start, end, mem) ==
    Ascending({a \in DOMAIN mem : start <= a /\ a < end /\ mem[a] = pattern})

\* A line of output: what is said, and the thread and address it is about.
Line(kind, thread, addr) == [kind |-> kind, thread |-> thread, addr |-> addr]

RECURSIVE Telescope(_, _)
Telescope(thread, addrs) ==
    IF addrs = <<>> THEN <<>>
    ELSE <<Line("telescope", thread, Head(addrs))>> \o Telescope(thread, Tail(addrs))

\* Mutant: the cap on displayed canaries applies with --all too.
NumCanariesToDisplay_AlwaysCapped(all, n) == Min(DEFAULT_NUM_CANARIES_TO_DISPLAY, n)

\* num_canaries_to_display = len(stack_canaries), capped at 2 unless --all
NumCanariesToDisplay(all, n) ==
    IF ~all THEN Min(DEFAULT_NUM_CANARIES_TO_DISPLAY, n) ELSE n

\* Mutant: a thread whose matches are not all shown does not count as found.
CanaryThread_FoundUnlessHidden(acc, item, packed, all, mem) ==
    LET stack_canaries == search(packed, item.page.vaddr,
                                 item.page.vaddr + item.page.memsz, mem)
        a1 == [acc EXCEPT !.searched = Append(@, item.ptid)]
        num == NumCanariesToDisplay(all, Len(stack_canaries))
    IN  IF stack_canaries = <<>> THEN a1
        ELSE [a1 EXCEPT
                !.found = @ \/ num = Len(stack_canaries),
                !.printed = @ \o <<Line("found_on_thread", item.ptid, 0)>>
                              \o Telescope(item.ptid, SubSeq(stack_canaries, 1, num)),
                !.hidden = @ \/ num < Len(stack_canaries)]

\* One iteration of canary()'s loop over the thread stacks.
CanaryThread(acc, item, packed, all, mem) ==
    LET stack_canaries == search(packed, item.page.vaddr,
                                 item.page.vaddr + item.page.memsz, mem)
        a1 == [acc EXCEPT !.searched = Append(@, item.ptid)]
        num == NumCanariesToDisplay(all, Len(stack_canaries))
    IN  IF stack_canaries = <<>> THEN a1
        ELSE [a1 EXCEPT
                !.found = TRUE,
                !.printed = @ \o <<Line("found_on_thread", item.ptid, 0)>>
                              \o Telescope(item.ptid, SubSeq(stack_canaries, 1, num)),
                !.hidden = @ \/ num < Len(stack_canaries)]

RECURSIVE CanaryLoop(_, _, _, _, _)
CanaryLoop(acc, items, packed, all, mem) ==
    IF items = <<>> THEN acc
    ELSE CanaryLoop(CanaryThread(acc, Head(items), packed, all, mem),
                    Tail(items), packed, all, mem)

\* pwndbg.gdblib.stack.get(): every thread's Page from the tracker.
get(d) == d

\* canary(all): what it prints, which threads' stacks it searched, and its flags.
canary(all, d, auxv, mem, arch) ==
    LET cv == canary_value(auxv, mem, arch)
        acc0 == [canary |-> cv.canary, at_random |-> cv.at_random, reads |-> cv.reads,
                 found |-> FALSE, hidden |-> FALSE, searched |-> <<>>,
                 printed |-> <<>>]
    IN  IF cv.canary = None \/ cv.at_random = None
        THEN [acc0 EXCEPT !.printed = <<Line("no_at_random", None, 0)>>]
        ELSE LET heading == <<Line("at_random", None, cv.at_random[1]),
                              Line("canary", None, 0)>>
                 r == CanaryLoop([acc0 EXCEPT !.printed = heading], get(d),
                                 pack(cv.canary[1], arch.endian), all, mem)
             IN  [r EXCEPT !.printed =
                      @ \o (IF r.found = FALSE
                            THEN <<Line("no_canaries_found", None, 0)>> ELSE <<>>)
                        \o (IF r.hidden = TRUE
                            THEN <<Line("results_hidden", None, 0)>> ELSE <<>>)]

\* ----------------------------------------------------- find_addr_on_stack

\* Mutant: the loop does not stop at the first match.
RECURSIVE ScanLoop_NoBreak(_, _, _, _, _, _, _)
ScanLoop_NoBreak(spv, start, stop, ptrsize, addr, mem, acc) ==
    IF ~(start <= spv /\ spv < stop) THEN acc
    ELSE IF spv \in mem.unreadable
         THEN [acc EXCEPT !.raised = TRUE, !.steps = @ + 1]
    ELSE ScanLoop_NoBreak(spv + ptrsize, start, stop, ptrsize, addr, mem,
                          [acc EXCEPT !.steps = @ + 1,
                                      !.stackaddr = IF mem.word[spv] = addr
                                                    THEN spv ELSE @])

\* while start <= sp < stop: read the word at sp, stop at a match, step on.
RECURSIVE ScanLoop(_, _, _, _, _, _, _)
ScanLoop(spv, start, stop, ptrsize, addr, mem, acc) ==
    IF ~(start <= spv /\ spv < stop) THEN acc
    ELSE IF spv \in mem.unreadable
         THEN [acc EXCEPT !.raised = TRUE, !.steps = @ + 1]
    ELSE IF mem.word[spv] = addr
         THEN [acc EXCEPT !.stackaddr = spv, !.steps = @ + 1]
    ELSE ScanLoop(spv + ptrsize, start, stop, ptrsize, addr, mem,
                  [acc EXCEPT !.steps = @ + 1])

\* pwndbg.gdblib.vmmap.find(sp): the Page the address lies in, if any.
vmmap_find(d, address) == Lookup(d, address)

\* find_addr_on_stack(addr): the result, whether it raised, and the number of
\* loop iterations. Without a Page for sp the attribute access raises.
find_addr_on_stack(addr, spv, d, ptrsize, mem) ==
    LET stack == vmmap_find(d, spv)
        acc0 == [stackaddr |-> 0, raised |-> FALSE, steps |-> 0]
    IN  IF stack = None THEN [acc0 EXCEPT !.raised = TRUE]
        ELSE ScanLoop(spv, stack[1].vaddr, stack[1].vaddr + stack[1].memsz,
                      ptrsize, addr, mem, acc0)

\* ---------------------------------------------------------- the machine
\* The registers and the memory map are the debugger's to report: each run of
\* update() reads them afresh, so they are inputs of the operation that runs
\* it (e.sp, e.mapped) and not part of the state. The ABI and the program
\* headers belong to the process and stay as they are until it exits.

\* The tracker's state as the operators above pass it along.
Tracker ==
    [stacks |-> stacks, nx |-> nx, execCache |-> execCache,
     updateCache |-> updateCache, selected |-> selected,
     failed |-> FALSE, ran |-> FALSE, scans |-> 0, visited |-> <<>>]

EnvOf(f, mp) ==
    [pid |-> pid, sp |-> f, mapped |-> mp, linux |-> linux, phdrs |-> phdrs]

\* threads() lists the threads in creation order.
RECURSIVE Order(_)
Order(T) ==
    IF T = {} THEN <<>>
    ELSE LET t == CHOOSE x \in T : \A y \in T : x <= y IN <<t>> \o Order(T \ {t})

\* What may go wrong inside update(): one step for one thread.
AllFaults(T) ==
    {Fault(t, k) : t \in T, k \in {"regs", "probe", "elf"}}

\* Whether some Page of d has a lower start in d2.
Lowered(d, d2) ==
    \E i \in 1..Len(d), j \in 1..Len(d2) :
        d[i].ptid = d2[j].ptid /\ d2[j].page.vaddr < d[i].page.vaddr

\* The record of an operation: its name, argument and result, whether it
\* raised, whether the body of update() ran in it, the thread selected when
\* it began, the threads update() switched to, how often the program headers
\* were scanned, whether a Page was extended downward, the stack pointers
\* and the memory map the operation met, and whether it removed Pages and
\* reset a flag that was set.
NoOp ==
    [op |-> "none", arg |-> 0, ret |-> None, failed |-> FALSE, ran |-> FALSE,
     entrySelected |-> None, visited |-> <<>>, scans |-> 0, grew |-> FALSE,
     sp |-> <<>>, mapped |-> {}, dropped |-> FALSE, unset |-> FALSE]

Outcome(name, st, entry) ==
    [NoOp EXCEPT !.op = name, !.failed = st.failed, !.ran = st.ran,
                 !.entrySelected = entry, !.visited = st.visited,
                 !.scans = st.scans, !.grew = Lowered(stacks, st.stacks),
                 !.dropped = Len(st.stacks) < Len(stacks),
                 !.unset = nx /\ ~st.nx]

Commit(st) ==
    /\ stacks' = st.stacks
    /\ nx' = st.nx
    /\ execCache' = st.execCache
    /\ updateCache' = st.updateCache
    /\ selected' = st.selected
    /\ UNCHANGED out

NoOut == [op |-> "none"]

\* The tracked Pages.
Pages == {stacks[i].page : i \in 1..Len(stacks)}

\* No operation is under way: the outcome of the last one has been taken.
Idle == last = NoOp /\ out = NoOut

Init ==
    /\ threads = {}
    /\ pid = 1
    /\ selected = None
    /\ linux = TRUE
    /\ phdrs = <<>>
    /\ stacks = <<>>
    /\ nx = FALSE
    /\ updateCache = FALSE
    /\ execCache = None
    /\ currentCache = None
    /\ sinceStop = None
    /\ epoch = "init"
    /\ last = NoOp
    /\ out = NoOut

\* The stop handlers, in registration order: the event clears the "stop"
\* caches, then update() and is_executable() run, each behind its cache. An
\* exception in one handler is reported and does not keep the next from running.
StopHandlers(st, e, order, fault) ==
    LET s0 == [st EXCEPT !.updateCache = FALSE]
        s1 == CachedUpdate(s0, e, order, fault)
        s2 == CachedIsExecutable([s1 EXCEPT !.failed = FALSE], e, FALSE).st
    IN  [s2 EXCEPT !.failed = s1.failed]

\* What a stop event does once the inferior shows threads T with stack
\* pointers f, memory map mp and selected thread sel.
Stopped(T, f, mp, sel, lx, ph, fault) ==
    /\ threads' = T
    /\ linux' = lx
    /\ phdrs' = ph
    /\ UNCHANGED pid
    /\ \E r \in {StopHandlers([Tracker EXCEPT !.selected = Some(sel)],
                               [pid |-> pid, sp |-> f, mapped |-> mp, linux |-> lx,
                                phdrs |-> ph],
                               Order(T), fault)} :
           /\ Commit(r)
           /\ epoch' = IF r.ran THEN "updated" ELSE epoch
           /\ last' = [Outcome("stop", r, Some(sel)) EXCEPT !.sp = f, !.mapped = mp]
           /\ currentCache' = None
           /\ sinceStop' = None

\* A new process reaches its first stop with its leader thread.
StartEvent(Sps, Maps, Fs, Abis, Phs) ==
    /\ Idle
    /\ threads = {}
    /\ \E f \in [{pid} -> Sps], mp \in Maps, lx \in Abis, ph \in Phs :
       \E fault \in {None} \cup (Fs \cap AllFaults({pid})) :
           Stopped({pid}, f, mp, pid, lx, ph, fault)

\* The running process stops, with the threads it had and any it has spawned,
\* each at whatever stack pointer it has now.
StopEvent(Sps, Maps, Fs) ==
    /\ Idle
    /\ threads # {}
    /\ \E T \in {S \in SUBSET Tids : threads \subseteq S} :
       \E f \in [T -> Sps], mp \in Maps, sel \in T :
       \E fault \in {None} \cup (Fs \cap AllFaults(T)) :
           Stopped(T, f, mp, sel, linux, phdrs, fault)

\* The inferior exits: its threads are gone, the "exit" caches are cleared and
\* clear() runs.
ExitEvent ==
    /\ Idle
    /\ threads # {}
    /\ threads' = {}
    /\ UNCHANGED <<pid, linux, phdrs>>
    /\ \E r \in {clear([Tracker EXCEPT !.execCache = None, !.selected = None])} :
       /\ Commit(r)
       /\ epoch' = "cleared"
       /\ last' = Outcome("exit", r, selected)
    /\ currentCache' = Detach(currentCache)
    /\ sinceStop' = Detach(sinceStop)

\* The inputs a call is given: those of Sps, Maps and Fs when it will run the
\* body of update(), and nothing to choose from when it will not.
ObservationsIf(runs, Sps) ==
    IF runs THEN [threads -> Sps] ELSE {[t \in threads |-> None]}

MapsIf(runs, Maps) ==
    IF runs THEN Maps ELSE {{}}

FaultsIf(runs, Fs) ==
    IF runs THEN {None} \cup (Fs \cap AllFaults(threads)) ELSE {None}

\* A caller asks find(address).
Find(Sps, Maps, Fs) ==
    /\ Idle
    /\ LET runs == stacks = <<>> /\ ~updateCache IN
       \E address \in Addresses :
       \E f \in ObservationsIf(runs, Sps), mp \in MapsIf(runs, Maps),
          fault \in FaultsIf(runs, Fs) :
       \E r \in {find(Tracker, EnvOf(f, mp), address, Order(threads), fault)} :
           /\ Commit(r.st)
           /\ epoch' = IF r.st.ran THEN "updated" ELSE epoch
           /\ last' = [Outcome("find", r.st, selected) EXCEPT
                           !.arg = address, !.ret = r.ret, !.sp = f, !.mapped = mp]
           /\ currentCache' = Follow(currentCache, r.st.stacks)
           /\ sinceStop' = Follow(sinceStop, r.st.stacks)
    /\ UNCHANGED <<threads, pid, linux, phdrs>>

\* A caller runs update().
Update(Sps, Maps, Fs) ==
    /\ Idle
    /\ LET runs == ~updateCache IN
       \E f \in ObservationsIf(runs, Sps), mp \in MapsIf(runs, Maps),
          fault \in FaultsIf(runs, Fs) :
       \E r \in {CachedUpdate(Tracker, EnvOf(f, mp), Order(threads), fault)} :
           /\ Commit(r)
           /\ epoch' = IF r.ran THEN "updated" ELSE epoch
           /\ last' = [Outcome("update", r, selected) EXCEPT !.sp = f, !.mapped = mp]
           /\ currentCache' = Follow(currentCache, r.stacks)
           /\ sinceStop' = Follow(sinceStop, r.stacks)
    /\ UNCHANGED <<threads, pid, linux, phdrs>>

\* The user selects another thread.
SelectThread ==
    /\ Idle
    /\ \E t \in threads :
        /\ selected # Some(t)
        /\ selected' = Some(t)
    /\ UNCHANGED <<threads, pid, linux, phdrs, stacks, nx, updateCache,
                   execCache, currentCache, sinceStop, epoch, last, out>>

\* The caller takes the outcome of the operation; the next one may begin.
Return ==
    /\ ~Idle
    /\ last' = NoOp
    /\ out' = NoOut
    /\ UNCHANGED <<threads, pid, selected, linux, phdrs, stacks, nx,
                   updateCache, execCache, currentCache, sinceStop, epoch>>

\* A few stack pointers: unavailable, and a value in each of the two highest pages.
SpFew ==
    {None} \cup {Some(p * PAGE_SIZE + PAGE_SIZE \div 2) : p \in {NumPages - 2, NumPages - 1}}

\* The tracker over a few stack pointers and one memory map, with every
\* failure of a register read, a boundary probe or an ELF read, and every
\* program header table.
FaultNext ==
    \/ StartEvent(SpFew, {PageNos}, AllFaults(Tids), {TRUE}, PhdrTables)
    \/ StopEvent(SpFew, {PageNos}, AllFaults(Tids))
    \/ ExitEvent
    \/ Find(SpFew, {PageNos}, AllFaults(Tids))
    \/ Update(SpFew, {PageNos}, AllFaults(Tids))
    \/ SelectThread
    \/ Return

FaultSpec == Init /\ [][FaultNext]_vars

\* ---------------------------------------------------- the canary command

\* Pointer sizes and byte orders.
Archs == {[ptrsize |-> n, endian |-> e] : n \in {4, 8}, e \in {"little", "big"}}

\* Where the auxiliary vector's AT_RANDOM points when it is there: near the
\* top of the highest page.
AtRandomAddr == NumPages * PAGE_SIZE - 16

\* The stack words whose contents the inputs choose: NumSlots in the highest
\* page and one in the page below.
SlotAddrs ==
    {(NumPages - 1) * PAGE_SIZE + 16 * i : i \in 1..NumSlots}
        \cup {(NumPages - 2) * PAGE_SIZE + 16}

\* Byte strings of pointer size: the first and the last byte as given, the
\* bytes between all `fill`.
Bytes(ptrsize, first, fill, final) ==
    [i \in 1..ptrsize |-> IF i = 1 THEN first ELSE IF i = ptrsize THEN final ELSE fill]

\* The random bytes at AT_RANDOM: the first and the last byte from Ends, the
\* bytes between from Fills.
RandomBytes(ptrsize, Ends, Fills) ==
    {Bytes(ptrsize, a, f, b) : a, b \in Ends, f \in Fills}

\* The random bytes the canary command is tried on.
FewRandomBytes(ptrsize) == RandomBytes(ptrsize, {0, 65}, {65})

\* The canary as the C library keeps it on a stack: the random word with its
\* least significant byte zero, which is the first byte in memory on a
\* little-endian machine and the last on a big-endian one.
StoredCanary(random, arch) ==
    [i \in 1..arch.ptrsize |->
        IF i = (IF arch.endian = "little" THEN 1 ELSE arch.ptrsize) THEN 0 ELSE random[i]]

\* A stack word holds the canary, the random word as it is, or zero.
SlotContents(random, arch) ==
    {StoredCanary(random, arch), random, [i \in 1..arch.ptrsize |-> 0]}

Memory(random, slots) ==
    [a \in SlotAddrs \cup {AtRandomAddr} |-> IF a = AtRandomAddr THEN random ELSE slots[a]]

\* The memories the canary command may meet; without AT_RANDOM it reads none.
Memories(auxv, arch, Randoms) ==
    IF auxv = None THEN {Memory([i \in 1..arch.ptrsize |-> 0],
                                [a \in SlotAddrs |-> [i \in 1..arch.ptrsize |-> 0]])}
    ELSE UNION {{Memory(r, sl) : sl \in [SlotAddrs -> SlotContents(r, arch)]} :
                r \in Randoms}

TrackerUnchanged ==
    UNCHANGED <<threads, pid, selected, linux, phdrs, stacks, nx, updateCache,
                execCache, currentCache, sinceStop, epoch, last>>

\* A caller runs canary_value().
CanaryValue(Ends, Fills) ==
    /\ Idle
    /\ threads # {}
    /\ \E arch \in Archs, auxv \in {None, Some(AtRandomAddr)} :
       \E random \in IF auxv = None THEN {Bytes(arch.ptrsize, 0, 0, 0)}
                      ELSE RandomBytes(arch.ptrsize, Ends, Fills) :
       \E mem \in {Memory(random, [a \in SlotAddrs |-> random])} :
           out' = [op |-> "canary_value", all |-> FALSE, arch |-> arch, auxv |-> auxv,
                   mem |-> mem, res |-> canary_value(auxv, mem, arch)]
    /\ TrackerUnchanged

\* The user runs the canary command, with or without --all, while the
\* process is alive.
Canary ==
    /\ Idle
    /\ threads # {}
    /\ \E all \in BOOLEAN, arch \in Archs, auxv \in {None, Some(AtRandomAddr)} :
       \E mem \in Memories(auxv, arch, FewRandomBytes(arch.ptrsize)) :
           out' = [op |-> "canary", all |-> all, arch |-> arch, auxv |-> auxv,
                   mem |-> mem, res |-> canary(all, stacks, auxv, mem, arch)]
    /\ TrackerUnchanged

\* The stack pointers of one thread and none.
SpTop ==
    {None, Some((NumPages - 1) * PAGE_SIZE + PAGE_SIZE \div 2)}

\* The tracker over a few stack pointers, with the canary command.
CanaryNext ==
    \/ StartEvent(SpFew, {PageNos}, {}, BOOLEAN, {<<1, PT_GNU_STACK, 2>>})
    \/ StopEvent(SpFew, {PageNos}, {})
    \/ ExitEvent
    \/ CanaryValue({0, 65}, {65})
    \/ Canary
    \/ Return

CanarySpec == Init /\ [][CanaryNext]_vars

\* One process, with canary_value() over many random words.
ValueNext ==
    \/ StartEvent(SpTop, {PageNos}, {}, {TRUE}, {<<1, PT_GNU_STACK, 2>>})
    \/ ExitEvent
    \/ CanaryValue({0, 1, 65, 128, 255}, {0, 65, 255})
    \/ Return

ValueSpec == Init /\ [][ValueNext]_vars

\* ------------------------------------------------------ the stack scanner

\* The stack pointers the scan starts at: up to MaxScanSlots words below a
\* page boundary.
ScanSps(ptrsize) ==
    {p * PAGE_SIZE - k * ptrsize : p \in 1..NumPages, k \in 1..MaxScanSlots}

\* The words a scan from spv may read, and the one below them.
ScanWindow(spv, ptrsize) ==
    {spv + k * ptrsize : k \in (-1)..MaxScanSlots}

\* The memories a scan for addr from spv may meet: each word above the stack
\* pointer holds addr or not, the word below it holds addr, and at most one
\* word cannot be read.
ScanMemories(spv, ptrsize, addr) ==
    {[word |-> w, unreadable |-> u] :
        w \in {f \in [ScanWindow(spv, ptrsize) -> {addr, addr + 1}] :
                   f[spv - ptrsize] = addr},
        u \in {{}} \cup {{a} : a \in ScanWindow(spv, ptrsize) \ {spv - ptrsize}}}

\* A caller runs find_addr_on_stack(addr) while the process is alive, the
\* selected thread's stack pointer being spv.
FindAddrOnStack ==
    /\ Idle
    /\ threads # {}
    /\ \E ptrsize \in {4, 8}, addr \in {0, PAGE_SIZE} :
       \E spv \in ScanSps(ptrsize) :
       \E mem \in ScanMemories(spv, ptrsize, addr) :
           /\ \A stack \in {p \in Pages : vmmap_find(stacks, spv) = Some(p)} :
                 stack.vaddr + stack.memsz - spv <= MaxScanSlots * ptrsize
           /\ out' = [op |-> "scan", addr |-> addr, sp |-> spv, ptrsize |-> ptrsize,
                      mem |-> mem,
                      res |-> find_addr_on_stack(addr, spv, stacks, ptrsize, mem)]
    /\ TrackerUnchanged

\* The tracker with one stack pointer per thread, with the stack scanner.
ScanNext ==
    \/ StartEvent(SpTop, MappedLayouts, {}, BOOLEAN, {<<1, PT_GNU_STACK, 2>>})
    \/ StopEvent(SpTop, MappedLayouts, {})
    \/ ExitEvent
    \/ FindAddrOnStack
    \/ Return

ScanSpec == Init /\ [][ScanNext]_vars

\* ------------------------------------------------------ current, clear

\* A caller runs clear() while the process is alive or after it has gone.
Clear ==
    /\ Idle
    /\ \E r \in {clear(Tracker)} :
       /\ Commit(r)
       /\ epoch' = "cleared"
       /\ last' = Outcome("clear", r, selected)
    /\ currentCache' = Detach(currentCache)
    /\ sinceStop' = Detach(sinceStop)
    /\ UNCHANGED <<threads, pid, linux, phdrs>>

\* The stack pointer of the selected thread: None when no thread is selected.
SelectedSp(f) ==
    IF selected = None THEN None ELSE f[selected[1]]

\* The Page object a first current() returned: the one find(sp) found in
\* the dictionary d.
Returned(ret, d, spv) ==
    Cached(ret, IF ret = None THEN None ELSE LookupKey(d, spv[1]))

\* A caller asks current(): the registers show the stack pointers f.
Current(Sps, Maps, Fs) ==
    /\ Idle
    /\ LET runs == currentCache = None /\ stacks = <<>> /\ ~updateCache IN
       \E f \in [threads -> Sps], mp \in MapsIf(runs, Maps),
          fault \in FaultsIf(runs, Fs) :
       \E r \in {current(Tracker, currentCache, EnvOf(f, mp), SelectedSp(f),
                         Order(threads), fault)} :
           /\ Commit(r.st)
           /\ epoch' = IF r.st.ran THEN "updated" ELSE epoch
           /\ last' = [Outcome("current", r.st, selected) EXCEPT
                           !.ret = r.ret, !.sp = f, !.mapped = mp]
           /\ currentCache' = Follow(r.cache, r.st.stacks)
           /\ sinceStop' = IF sinceStop = None /\ ~r.st.failed
                           THEN Returned(r.ret, r.st.stacks, SelectedSp(f))
                           ELSE Follow(sinceStop, r.st.stacks)
    /\ UNCHANGED <<threads, pid, linux, phdrs>>

\* The tracker with current() and clear(): stop events and update() over a
\* few stack pointers, with the register read of the second thread failing
\* or not, and current() over every stack pointer.
CurrentNext ==
    \/ StartEvent(SpFew, {PageNos}, {}, BOOLEAN, {<<1, PT_GNU_STACK, 2>>})
    \/ StopEvent(SpFew, {PageNos}, {Fault(2, "regs")})
    \/ ExitEvent
    \/ Clear
    \/ Current(SpValues, {PageNos}, {Fault(2, "regs")})
    \/ Update(SpFew, {PageNos}, {Fault(2, "regs")})
    \/ SelectThread
    \/ Return

CurrentSpec == Init /\ [][CurrentNext]_vars

\* ------------------------------------------------- the boundary probe

\* The stack pointers find_upper_stack_boundary is asked about: the first
\* bytes, the middle and the last byte of every page.
BoundaryPointers ==
    {p * PAGE_SIZE + o : p \in PageNos, o \in {0, 1, PAGE_SIZE \div 2, PAGE_SIZE - 1}}

\* The max_pages it is given: none, a few, and the default.
MaxPagesValues == {0, 1, 2, DEFAULT_MAX_PAGES}

\* A caller runs find_upper_stack_boundary(stack_ptr, max_pages).
FindUpperStackBoundary ==
    /\ Idle
    /\ threads # {}
    /\ \E stack_ptr \in BoundaryPointers, max_pages \in MaxPagesValues,
          mp \in MappedLayouts :
           out' = [op |-> "boundary", stack_ptr |-> stack_ptr,
                   max_pages |-> max_pages, mapped |-> mp, linux |-> linux,
                   res |-> find_upper_stack_boundary(stack_ptr, max_pages, linux, mp),
                   probes |-> find_upper_stack_boundary_probes(stack_ptr, max_pages,
                                                               linux, mp)]
    /\ TrackerUnchanged

\* One process of either ABI, with find_upper_stack_boundary.
BoundaryNext ==
    \/ StartEvent(SpTop, {PageNos}, {}, BOOLEAN, {<<1, PT_GNU_STACK, 2>>})
    \/ ExitEvent
    \/ FindUpperStackBoundary
    \/ Return

BoundarySpec == Init /\ [][BoundaryNext]_vars

\* The tracker over every stack pointer and memory map, with no failures.
Next ==
    \/ StartEvent(SpValues, MappedLayouts, {}, BOOLEAN, {<<1, PT_GNU_STACK, 2>>})
    \/ StopEvent(SpValues, MappedLayouts, {})
    \/ ExitEvent
    \/ Find(SpValues, MappedLayouts, {})
    \/ Update(SpValues, MappedLayouts, {})
    \/ SelectThread
    \/ Return

Spec == Init /\ [][Next]_vars

\* ---------------------------------------------------------------- claims

\* C1: between two process exits the start of a thread's Page never increases:
\* in every step, a thread that has a Page before and after the step has a
\* start after it that is at most its start before it.
C1_StartNeverIncreases ==
    [][\A i \in 1..Len(stacks), j \in 1..Len(stacks') :
          stacks[i].ptid = stacks'[j].ptid
              => stacks'[j].page.vaddr <= stacks[i].page.vaddr]_vars

\* An update() has just moved the start of an existing Page down.
C1_Witness ==
    last.op \in {"stop", "update"} /\ last.ran /\ last.grew

\* C2: no two Pages tracked for distinct threads overlap.
C2_NoOverlap ==
    \A i, j \in 1..Len(stacks) :
        i # j => \/ stacks[i].page.vaddr + stacks[i].page.memsz <= stacks[j].page.vaddr
                 \/ stacks[j].page.vaddr + stacks[j].page.memsz <= stacks[i].page.vaddr

\* C3: find(address) returns a Page p if and only if p is tracked and contains
\* the address, and returns none exactly when no tracked Page contains it.
C3_FindIffContains ==
    (last.op = "find" /\ ~last.failed) =>
        /\ \A p \in Pages : (last.ret = Some(p)) <=> PageContains(p, last.arg)
        /\ (last.ret = None) <=> ~(\E p \in Pages : PageContains(p, last.arg))

\* C4: after clear(), find() returns none for every address as long as the
\* body of update() has not run again.
C4_NoneAfterClear ==
    (last.op = "find" /\ epoch = "cleared" /\ ~last.failed) => last.ret = None

\* find() has returned after a clear(), its own call of update() answered from
\* the cache that the exit did not invalidate.
C4_Witness ==
    last.op = "find" /\ epoch = "cleared" /\ updateCache /\ ~last.ran

\* C5: whenever the body of update() has run, to its end or to an exception,
\* the selected thread is the one that was selected when it began.
C5_SelectedRestored ==
    (last.op \in {"stop", "find", "update"} /\ last.ran) => selected = last.entrySelected

\* update() raised while it had switched to a thread other than the one
\* selected on entry.
C5_Witness ==
    /\ last.ran /\ last.failed /\ last.visited # <<>>
    /\ Some(last.visited[Len(last.visited)]) # last.entrySelected
    /\ last.entrySelected # None

HasGnuStack(ph) == \E i \in DOMAIN ph : ph[i] = PT_GNU_STACK

\* C6: is_executable() is false when a program header of type PT_GNU_STACK
\* exists and true when none does, and a Page made by update() has
\* permission 6 in the first case and 7 in the second.
C6_PermissionFromHeaders ==
    /\ execCache # None => execCache[1] = ~HasGnuStack(phdrs)
    /\ \A p \in Pages : p.flags = IF HasGnuStack(phdrs) THEN 6 ELSE 7

\* The program headers were scanned, found PT_GNU_STACK, and a Page was made.
C6_Witness ==
    /\ last.scans > 0 /\ HasGnuStack(phdrs) /\ execCache = Some(FALSE)
    /\ \E p \in Pages : p.flags = 6

\* The pointer-width integer canary_value() read at AT_RANDOM.
C7_Read == unpack(out.mem[AtRandomAddr], out.arch.endian)

\* C7: the value canary_value() returns is the value read at AT_RANDOM with
\* its low 8 bits cleared and its other bits unchanged: its low byte is zero,
\* the 256 inputs that differ from the one read only in the low byte all give
\* it, and masking it again leaves it unchanged.
C7_MaskClearsLowByte ==
    (out.op = "canary_value" /\ out.auxv # None) =>
        LET masked == out.res.canary[1]
            n == out.arch.ptrsize
        IN  /\ Len(masked) = n
            /\ masked[1] = 0
            /\ \A i \in 2..n : masked[i] = C7_Read[i]
            /\ \A b \in 0..255 : MaskCanary([C7_Read EXCEPT ![1] = b], n) = masked
            /\ MaskCanary(masked, n) = masked

\* canary_value() has masked an 8-byte value 0x41414141414141FF.
C7_Witness ==
    /\ out.op = "canary_value" /\ out.auxv # None /\ out.arch.ptrsize = 8
    /\ C7_Read = <<255, 65, 65, 65, 65, 65, 65, 65>>
    /\ out.res.canary = Some(<<0, 65, 65, 65, 65, 65, 65, 65>>)

\* The addresses the canary command displayed for a thread, in order.
RECURSIVE DisplayedFor(_, _)
DisplayedFor(printed, thread) ==
    IF printed = <<>> THEN <<>>
    ELSE (IF Head(printed).kind = "telescope" /\ Head(printed).thread = thread
          THEN <<Head(printed).addr>> ELSE <<>>) \o DisplayedFor(Tail(printed), thread)

\* The canary matches in a Page, ascending.
MatchesIn(page) ==
    search(pack(out.res.canary[1], out.arch.endian), page.vaddr,
           page.vaddr + page.memsz, out.mem)

C9_NoAtRandom ==
    (out.op \in {"canary_value", "canary"} /\ out.auxv = None) =>
        /\ out.res.canary = None
        /\ out.res.at_random = None
        /\ out.res.reads = <<>>
        /\ out.op = "canary" =>
              /\ out.res.printed = <<Line("no_at_random", None, 0)>>
              /\ out.res.searched = <<>>

\* The canary command ran without AT_RANDOM while stacks were tracked.
C9_Witness ==
    out.op = "canary" /\ out.auxv = None /\ stacks # <<>>

\* The Page the scan ran in, and the matching words from the stack pointer up.
C10_Stack == vmmap_find(stacks, out.sp)[1]

C10_Hits ==
    {a \in {out.sp + k * out.ptrsize : k \in 0..MaxScanSlots} :
        /\ C10_Stack.vaddr <= a /\ a < C10_Stack.vaddr + C10_Stack.memsz
        /\ out.mem.word[a] = out.addr}

\* C10: find_addr_on_stack returns the lowest address sp + k * ptrsize inside
\* the current Page whose word equals the target, and 0 when there is none;
\* the scan ends within as many iterations as there are words from the stack
\* pointer to the Page's upper bound.
C10_FirstMatchOrZero ==
    (out.op = "scan" /\ ~out.res.raised) =>
        /\ out.res.stackaddr
              = IF C10_Hits = {} THEN 0
                ELSE CHOOSE a \in C10_Hits : \A b \in C10_Hits : a <= b
        /\ out.res.steps * out.ptrsize
              <= C10_Stack.vaddr + C10_Stack.memsz - out.sp + out.ptrsize - 1

\* The scan passed a word that does not match and returned the lower of two
\* that do.
C10_Witness ==
    /\ out.op = "scan" /\ ~out.res.raised
    /\ out.res.stackaddr > out.sp
    /\ Cardinality(C10_Hits) > 1

\* C11: when the ABI is not Linux, find_upper_stack_boundary(sp, max_pages)
\* returns the start of sp's page plus one page for every sp and max_pages,
\* and probes no memory.
C11_OnePagePastAligned ==
    (out.op = "boundary" /\ ~out.linux) =>
        /\ out.res = (out.stack_ptr - (out.stack_ptr % PAGE_SIZE)) + PAGE_SIZE
        /\ out.probes = <<>>

\* The boundary was asked for on a non-Linux ABI where probing would have
\* answered otherwise: no page allowed, or the next page mapped and allowed.
C11_Witness ==
    /\ out.op = "boundary" /\ ~out.linux
    /\ out.stack_ptr % PAGE_SIZE # 0
    /\ \/ out.max_pages = 0
       \/ /\ out.max_pages > 1
          /\ {out.stack_ptr \div PAGE_SIZE, out.stack_ptr \div PAGE_SIZE + 1}
                 \subseteq out.mapped
    /\ out.res = (out.stack_ptr \div PAGE_SIZE + 1) * PAGE_SIZE

\* C12: after update() the Page of the leader thread (pid = tid) is labelled
\* "[stack]" and the Page of a non-leader thread tid is labelled "[stack:<tid>]".
C12_Labels ==
    \A i \in 1..Len(stacks) :
        LET p == stacks[i].ptid[1]
            t == stacks[i].ptid[2]
        IN  stacks[i].page.objfile
                = IF p = t THEN <<"[stack]">> ELSE <<"[stack:", t, "]">>

\* C13: clear() never fails, leaves the map empty and the flag unset whatever
\* the state it is called in, and a second clear() changes nothing: the
\* state after two equals the state after one.
C13_ClearIsIdempotent ==
    [][last'.op = "clear" =>
          LET once == clear(Tracker) IN
          /\ ~last'.failed
          /\ stacks' = <<>> /\ nx' = FALSE
          /\ stacks' = once.stacks /\ nx' = once.nx
          /\ clear(once) = once]_vars

\* clear() has removed Pages and reset a flag that was set.
C13_Witness ==
    last.op = "clear" /\ last.dropped /\ last.unset

\* C14: between two stop events every current() returns what the first
\* current() after the earlier stop returned, and the first current() after a
\* stop event returns find(sp) for the stack pointer of that moment.
C14_CurrentCachedUntilStop ==
    [][(last'.op = "current" /\ ~last'.failed) =>
          IF sinceStop # None
          THEN last'.ret = Follow(sinceStop, stacks')[1].page
          ELSE LET spv == IF last'.entrySelected = None THEN None
                          ELSE last'.sp[last'.entrySelected[1]]
               IN  last'.ret = IF spv = None THEN None ELSE Lookup(stacks', spv[1])]_vars

\* current() has returned a Page that does not contain the stack pointer of
\* the moment: the one it found earlier, since the last stop event.
C14_Witness ==
    /\ last.op = "current" /\ ~last.failed /\ last.ret # None
    /\ selected # None /\ last.sp[selected[1]] # None
    /\ ~PageContains(last.ret[1], last.sp[selected[1]][1])

\* C15: once is_executable() has been computed, no step other than a process
\* exit scans the program headers, changes the flag or changes the cached
\* value; the cached value goes away only at an exit, and the headers are
\* scanned only when no value is cached.
C15_ExecutableCachedUntilExit ==
    [][/\ (execCache # None /\ last'.op # "exit") =>
             (last'.scans = 0 /\ execCache' = execCache /\ nx' = nx)
       /\ last'.scans > 0 => execCache = None
       /\ (execCache # None /\ execCache' = None) => last'.op = "exit"]_vars

\* A stop event ran update() and is_executable() without a scan: the value
\* computed earlier, with PT_GNU_STACK found, was still cached.
C15_Witness ==
    /\ last.op = "stop" /\ last.ran /\ last.scans = 0
    /\ execCache = Some(FALSE) /\ nx /\ Pages # {}

\* Whether a Page holds the packed masked canary somewhere.
C16_HasMatch(page) ==
    \E a \in DOMAIN out.mem :
        /\ PageContains(page, a)
        /\ out.mem[a] = pack(out.res.canary[1], out.arch.endian)

\* The kinds of line the canary command printed, and the threads it printed
\* lines about.
C16_Kinds == {out.res.printed[k].kind : k \in 1..Len(out.res.printed)}

C16_Threads == {out.res.printed[k].thread : k \in 1..Len(out.res.printed)}

C17_SkipsWithoutStackPointer ==
    [][(last'.op \in {"stop", "update", "find"} /\ last'.ran) =>
          /\ ~last'.failed
          /\ last'.visited = Order(threads')
          /\ \A t \in threads' :
                IF last'.sp[t] \in {None, Some(0)}
                THEN DictGet(stacks', <<pid, t>>) = DictGet(stacks, <<pid, t>>)
                ELSE DictGet(stacks', <<pid, t>>) # None]_vars

\* update() has run with the leader's stack pointer zero, the leader's Page
\* from an earlier update() still there, and the second thread tracked.
C17_Witness ==
    /\ last.op \in {"stop", "update"} /\ last.ran /\ threads = {1, 2}
    /\ last.sp[1] = Some(0) /\ DictGet(stacks, <<pid, 1>>) # None
    /\ last.sp[2] \notin {None, Some(0)} /\ DictGet(stacks, <<pid, 2>>) # None

\* C18: a Page that update() makes for a thread with stack pointer sp starts
\* one page below the start of sp's page and ends at
\* find_upper_stack_boundary(sp); its start is page-aligned and not negative,
\* its size is positive and it contains sp.
C18_NewPageShape ==
    [][\A t \in threads' :
          (/\ last'.op \in {"stop", "update", "find"} /\ last'.ran
           /\ DictGet(stacks, <<pid, t>>) = None
           /\ DictGet(stacks', <<pid, t>>) # None) =>
              LET page == DictGet(stacks', <<pid, t>>)[1]
                  sp == last'.sp[t][1]
              IN  /\ page.vaddr = (sp - (sp % PAGE_SIZE)) - PAGE_SIZE
                  /\ page.vaddr + page.memsz
                        = find_upper_stack_boundary(sp, DEFAULT_MAX_PAGES, linux',
                                                    last'.mapped)
                  /\ page.vaddr % PAGE_SIZE = 0
                  /\ page.vaddr >= 0
                  /\ page.memsz > 0
                  /\ PageContains(page, sp)]_vars

\* C19: in every step a thread's Page that is there before and after keeps
\* its upper bound, its size growing by what its start goes down; and an
\* update() in which the start of the page of the thread's stack pointer,
\* less one page, is not below the Page's start leaves the Page as it is,
\* wherever the stack pointer lies.
C19_UpperBoundFixed ==
    [][\A i \in 1..Len(stacks), j \in 1..Len(stacks') :
          stacks[i].ptid = stacks'[j].ptid =>
              LET old == stacks[i].page
                  new == stacks'[j].page
                  t == stacks[i].ptid[2]
              IN  /\ new.vaddr + new.memsz = old.vaddr + old.memsz
                  /\ new.memsz - old.memsz = old.vaddr - new.vaddr
                  /\ new.memsz >= old.memsz
                  /\ (/\ last'.op \in {"stop", "update", "find"}
                      /\ t \in threads'
                      /\ last'.sp[t] # None
                      /\ (last'.sp[t][1] - (last'.sp[t][1] % PAGE_SIZE)) - PAGE_SIZE
                            >= old.vaddr)
                        => new = old]_vars

\* update() has run for a thread whose stack pointer is at or above the
\* upper bound of the Page it already had; the Page starts lower than a new
\* Page for that stack pointer would.
C19_Witness ==
    /\ last.op \in {"stop", "update"} /\ last.ran
    /\ \E i \in 1..Len(stacks) :
          LET page == stacks[i].page
              t == stacks[i].ptid[2]
          IN  /\ t \in threads /\ last.sp[t] # None
              /\ last.sp[t][1] >= page.vaddr + page.memsz
              /\ page.vaddr < (last.sp[t][1] - (last.sp[t][1] % PAGE_SIZE)) - PAGE_SIZE

\* C20: a Page returned by current() is an entry of the map at the time of
\* the call; after an exit has cleared the map, current() does not return a
\* Page from before the exit.
C20_CurrentIsTracked ==
    (last.op = "current" /\ ~last.failed /\ last.ret # None) => last.ret[1] \in Pages

====
